---------------------------- MODULE Spec2Model ----------------------------
(***************************************************************************)
(* The interval-partition / cache / fetch / decode / merge pipeline of     *)
(* heliopy.data.cluster (_load, _download) and heliopy.data.messenger      *)
(* (mag_rtn), with the filesystem of the download directory, the module    *)
(* level configuration and the module level request dictionary as state.   *)
(***************************************************************************)
EXTENDS Integers, Sequences, FiniteSets, TLC

\* ------------------------------------------------------------- bounds
\* Calendar days the model knows: 0 .. NumDays-1.
NumDays == 2
\* Instants per calendar day; day d holds the instants d*TicksPerDay .. d*TicksPerDay+TicksPerDay-1.
TicksPerDay == 2
\* 'CSA_Download_*' directories the year directory can hold at once.
MaxDirs == 2

Days == 0 .. (NumDays - 1)
\* Instants; the last one is midnight after the last day (a possible interval end).
Ticks == 0 .. (NumDays * TicksPerDay)
\* the callers a session can have: Init runs one, InitConc both
Procs == {1, 2}

\* ------------------------------------------------------------- time
\* datetime.date(): the calendar day of an instant
DateOf(t) == t \div TicksPerDay
\* datetime.combine(date, time.min)
TimeMin(d) == d * TicksPerDay
\* datetime.combine(date, time.max): the last instant of the day
TimeMax(d) == d * TicksPerDay + (TicksPerDay - 1)

\* heliopy.time.daysplitinterval: the calendar days that intersect [starttime, endtime),
\* ascending, each once; an empty interval still gives its day.
daysplitinterval(starttime, endtime) ==
    LET first == DateOf(starttime)
        last  == IF endtime > starttime THEN DateOf(endtime - 1) ELSE first
    IN  [i \in 1 .. (last - first + 1) |-> first + i - 1]

\* ------------------------------------------------------------- frames
\* The frames a decodable day file can hold: the day's own instants, or those and the
\* first instant of the next day (an inclusive day extraction).
FrameChoices(d) ==
    LET own == {t \in Ticks : DateOf(t) = d}
    IN  {own, own \cup {TimeMin(d + 1)}}

\* helper.cdf2df / pd.read_hdf: the frame of day d with the given row instants
Frame(d, rows) == [day |-> d, rows |-> rows]

\* pd.concat of the frames: the rows in frame order (each frame ascending), each row
\* with the day of the frame it came from.
RECURSIVE SetToSeq(_)
SetToSeq(S) ==
    IF S = {} THEN << >>
    ELSE LET m == CHOOSE x \in S : \A y \in S : x <= y
         IN  <<m>> \o SetToSeq(S \ {m})

RECURSIVE Concat(_)
Concat(data) ==
    IF data = << >> THEN << >>
    ELSE LET f == Head(data)
             ts == SetToSeq(f.rows)
         IN  [i \in 1 .. Len(ts) |-> [t |-> ts[i], src |-> f.day]] \o Concat(Tail(data))

\* helper.timefilter (the Merger): concatenate, sort by timestamp ascending, keep the
\* rows with starttime <= t < endtime, one row per timestamp (the last one written).
timefilter(data, starttime, endtime) ==
    LET all  == Concat(data)
        keep == {all[i].t : i \in 1 .. Len(all)} \cap {t \in Ticks : starttime <= t /\ t < endtime}
        ts   == SetToSeq(keep)
        lastOf(t) == CHOOSE i \in 1 .. Len(all) :
                        /\ all[i].t = t
                        /\ \A j \in 1 .. Len(all) : all[j].t = t => j <= i
    IN  [i \in 1 .. Len(ts) |-> all[lastOf(ts[i])]]


\* ------------------------------------------------------------- state
VARIABLES
    procs,          \* the requests (callers) that run in this behaviour
    mission,        \* the mission module the session uses: "cluster" or "messenger"
    cda_cookie,     \* cluster.cda_cookie: "none" or "set"
    use_hdf,        \* messenger.use_hdf
    generic_dict,   \* cluster.generic_dict: its START_DATE and END_DATE entries
    local_dir,      \* whether the year directory exists (helper.checkdir creates it)
    tar,            \* per day: whether C<probe>_<product_id>__<d>.tar.gz is in the year directory
    dirs,           \* the 'CSA_Download_*' directories of the year directory
    cdf,            \* cluster, per day: whether the canonical C<probe>_<product_id>__<d>.cdf exists
    mcdf,           \* messenger, per day: whether messenger_mag_rtn_<d>_v01.cdf exists
    hdf,            \* messenger: the messenger_mag_rtn_<d>_v01.hdf of each day
    rq,             \* each request's position and local variables
    ob              \* each request's record of what it did (fetches, decodes, failures,
                    \* the 'CSA_Download_*' directory its own archive unpacked to)

vars == <<procs, mission, cda_cookie, use_hdf, generic_dict, local_dir, tar, dirs,
          cdf, mcdf, hdf, rq, ob>>

\* the filesystem of the download directory and the module level dictionary
fsvars == <<local_dir, tar, dirs, cdf, mcdf, hdf, generic_dict>>
\* the module level configuration
cfgvars == <<procs, mission, cda_cookie, use_hdf>>

Unset == -1
\* An extracted payload: its files, each named by the day its name carries (the name
\* is cut to C<probe>_<product_id>__<YYYYMMDD> on the move).
Payloads == SUBSET Days
\* no .hdf file at the path; a file that is there holds rows and was written to its
\* end (whole) or not
NoHdf == [isfile |-> FALSE, whole |-> FALSE, rows |-> {}]
NoDir == [used |-> FALSE, sub |-> FALSE, files |-> {}]
ZeroCount == [d \in Days |-> 0]

\* cluster.generic_dict as the module defines it: no START_DATE, no END_DATE
InitDict == [START_DATE |-> Unset, END_DATE |-> Unset]

IdleRq ==
    [pc |-> "idle", daylist |-> << >>, i |-> 1,
     data |-> << >>, outcome |-> "none",
     d_start |-> 0, d_end |-> 0, d_list |-> << >>, d_j |-> 1,
     url |-> InitDict, d |-> 0, flist |-> {}, df |-> {}, err |-> "none"]

IdleOb ==
    [cached0 |-> {}, calls |-> ZeroCount, downloads |-> ZeroCount, foreign |-> FALSE,
     decodes |-> ZeroCount, ffail |-> {}, dfail |-> {}, xdir |-> 0]

\* The configuration a session of mission m can have; the other module is not loaded.
Cookies(m) == IF m = "cluster" THEN {"none", "set"} ELSE {"none"}
HdfToggles(m) == IF m = "messenger" THEN BOOLEAN ELSE {FALSE}

InitWith(P) ==
    /\ procs = P
    /\ mission \in {"cluster", "messenger"}
    /\ cda_cookie \in Cookies(mission)
    /\ use_hdf \in HdfToggles(mission)
    /\ generic_dict = InitDict
    /\ local_dir = FALSE
    /\ tar = [d \in Days |-> FALSE]
    /\ dirs = [k \in 1 .. MaxDirs |-> NoDir]
    /\ cdf = [d \in Days |-> FALSE]
    /\ mcdf = [d \in Days |-> FALSE]
    /\ hdf = [d \in Days |-> NoHdf]
    /\ rq = [p \in P |-> IdleRq]
    /\ ob = [p \in P |-> IdleOb]

Init == InitWith({1})

\* the day the request is at
Today(p) == rq[p].daylist[rq[p].i]

\* a cache check that finds no day's file
ClusterCachedNever(d) == FALSE
\* os.path.exists(os.path.join(local_dir, local_fname)) in _load
ClusterCached(d) == cdf[d]
\* a check that takes only a file written to its end
HdfCachedWhole(d) == hdf[d].isfile /\ hdf[d].whole
\* os.path.isfile(hdfloc) in mag_rtn
HdfCached(d) == hdf[d].isfile
\* the local file helper.load looks for before it downloads
McdfCached(d) == mcdf[d]
\* the days that have an artifact of the session's mission on disk
CachedDays ==
    IF mission = "cluster" THEN {d \in Days : cdf[d]}
    ELSE {d \in Days : hdf[d].isfile \/ mcdf[d]}

\* ------------------------------------------------------------- a request begins
\* the entry of the pipeline of mission m
EntryPc(m) == IF m = "cluster" THEN "l_day" ELSE "m_day"

\* The intervals [starttime, endtime) a caller can ask for
Intervals == {iv \in Ticks \X Ticks : iv[1] <= iv[2] /\ DateOf(iv[1]) \in Days}

\* A caller invokes the mission function (cluster.fgm ... -> _load, messenger.mag_rtn)
\* for [starttime, endtime): the interval is partitioned and the accumulator is empty.
\* The pipeline reads starttime and endtime twice: daysplitinterval, here, reads their
\* dates, and timefilter, at the end, reads the instants. The request's state keeps the
\* partition; what it returns is given for each interval with that partition
\* (RequestedInterval, Returned).
StartRequestFor(p, IV) ==
    /\ rq[p].pc = "idle"
    /\ \E iv \in IV :
          LET daylist == daysplitinterval(iv[1], iv[2])
          IN  /\ rq' = [rq EXCEPT ![p] = [IdleRq EXCEPT !.pc = EntryPc(mission),
                                                        !.daylist = daylist]]
              /\ ob' = [ob EXCEPT ![p] =
                          [IdleOb EXCEPT !.cached0 =
                              {d \in CachedDays : \E k \in DOMAIN daylist : daylist[k] = d}]]
    /\ UNCHANGED <<cfgvars, fsvars>>

StartRequest(p) == StartRequestFor(p, Intervals)

\* the intervals within one calendar day
DayIntervals == {iv \in Intervals : Len(daysplitinterval(iv[1], iv[2])) = 1}

\* a caller asks for an interval of one day: one per-day branch of the pipeline
StartDayRequest(p) == StartRequestFor(p, DayIntervals)

\* the intervals whose partition is the request's: those that start within the first
\* day and end after an instant of the last day (or are empty, within one day)
RequestedInterval(p) ==
    LET dl == rq[p].daylist
        last == dl[Len(dl)]
    IN  IF dl = << >> THEN {}
        ELSE UNION {{<<s, e>> : e \in {t \in s .. (TimeMax(last) + 1) :
                                          \/ t > s /\ DateOf(t - 1) = last
                                          \/ t = s /\ last = dl[1]}} :
                    s \in TimeMin(dl[1]) .. TimeMax(dl[1])}

\* The caller has the result or the error of the request; its locals are gone.
Return(p) ==
    /\ rq[p].pc = "done"
    /\ rq' = [rq EXCEPT ![p] = IdleRq]
    /\ ob' = [ob EXCEPT ![p] = IdleOb]
    /\ UNCHANGED <<cfgvars, fsvars>>

\* The interpreter is started again with another configuration: the modules are
\* imported anew (generic_dict is as the module defines it), the download directory
\* is what the earlier sessions left.
NewSession ==
    /\ \A p \in procs : rq[p].pc = "idle"
    /\ \E c \in Cookies(mission), h \in HdfToggles(mission) :
          /\ <<c, h>> # <<cda_cookie, use_hdf>>
          /\ cda_cookie' = c
          /\ use_hdf' = h
    /\ generic_dict' = InitDict
    /\ UNCHANGED <<procs, mission, local_dir, tar, dirs, cdf, mcdf, hdf, rq, ob>>

\* ------------------------------------------------------------- cluster._load
\* the locals of _download, dropped when the call ends
ClearDl(r) ==
    [r EXCEPT !.d_start = 0, !.d_end = 0, !.d_list = << >>, !.d_j = 1,
              !.url = InitDict, !.d = 0, !.flist = {}]

\* thisstart = datetime.combine(date, time.min)
ThisStart(date) == TimeMin(date)
\* a day's bounds that run to the end of the day after
ThisEndNextDay(date) == TimeMax(date + 1)
\* thisend = datetime.combine(date, time.max)
ThisEnd(date) == TimeMax(date)

\* for day in daylist: ... if not os.path.exists(local file): _download(...)
L_Day(p) ==
    /\ rq[p].pc = "l_day"
    /\ IF rq[p].i > Len(rq[p].daylist)
       THEN /\ rq' = [rq EXCEPT ![p].pc = "l_merge"]
            /\ ob' = ob
       ELSE IF ClusterCached(Today(p))
       THEN /\ rq' = [rq EXCEPT ![p].pc = "l_decode"]
            /\ ob' = ob
       ELSE /\ rq' = [rq EXCEPT ![p].pc = "d_auth",
                                ![p].d_start = ThisStart(Today(p)),
                                ![p].d_end = ThisEnd(Today(p))]
            /\ ob' = [ob EXCEPT ![p].calls[Today(p)] = @ + 1]
    /\ UNCHANGED <<cfgvars, fsvars>>

\* a loop that passes over the day after a failed one
AfterFailedDaySkip(i) == i + 2
\* the loop index after a day whose _download raised: except ...: continue
AfterFailedDay(i) == i + 1

\* except Exception as err: print(str(err)); continue
L_Except(p) ==
    /\ rq[p].pc = "l_except"
    /\ rq' = [rq EXCEPT ![p] = [ClearDl(@) EXCEPT !.pc = "l_day", !.err = "none",
                                                   !.i = AfterFailedDay(@)]]
    /\ ob' = [ob EXCEPT ![p].ffail = @ \cup {Today(p)}, ![p].xdir = 0]
    /\ UNCHANGED <<cfgvars, fsvars>>

\* cdf = pycdf.CDF(local file); data.append(cdf2df(cdf, index_key, cdfkeys)), outside
\* the try: a file that is there decodes to a frame or raises (it cannot be opened, it
\* has no timestamp field); a file that is not there raises.
L_Decode(p) ==
    /\ rq[p].pc = "l_decode"
    /\ \/ /\ cdf[Today(p)]
          /\ \E rows \in FrameChoices(Today(p)) :
                rq' = [rq EXCEPT ![p].data = Append(@, Frame(Today(p), rows)),
                                 ![p].i = @ + 1,
                                 ![p].pc = "l_day"]
          /\ ob' = [ob EXCEPT ![p].decodes[Today(p)] = @ + 1]
       \/ /\ rq' = [rq EXCEPT ![p].pc = "done", ![p].outcome = "DecodeError"]
          /\ ob' = [ob EXCEPT ![p].decodes[Today(p)] = @ + 1,
                              ![p].dfail = @ \cup {Today(p)}]
    /\ UNCHANGED <<cfgvars, fsvars>>

\* the frames joined as they were accumulated, neither sorted nor clipped
LoadResultUnfiltered(data, starttime, endtime) == Concat(data)
\* what _load returns: timefilter(data, starttime, endtime)
LoadResult(data, starttime, endtime) == timefilter(data, starttime, endtime)

\* if len(data) == 0: raise RuntimeError('No data available ...');
\* return timefilter(data, starttime, endtime)
L_Merge(p) ==
    /\ rq[p].pc = "l_merge"
    /\ IF Len(rq[p].data) = 0
       THEN rq' = [rq EXCEPT ![p].pc = "done", ![p].outcome = "NoDataError"]
       ELSE rq' = [rq EXCEPT ![p].pc = "done", ![p].outcome = "DONE"]
    /\ UNCHANGED <<cfgvars, fsvars, ob>>

\* ------------------------------------------------------------- cluster._download
\* a _download that does not look at the cookie
CookieUnsetNever == FALSE
\* if cda_cookie == 'none'
CookieUnset == cda_cookie = "none"

\* if cda_cookie == 'none': raise RuntimeError('Cluster download cookie not set');
\* daylist = daysplitinterval(starttime, endtime)
D_Auth(p) ==
    /\ rq[p].pc = "d_auth"
    /\ IF CookieUnset
       THEN rq' = [rq EXCEPT ![p].pc = "l_except", ![p].err = "ConfigurationError"]
       ELSE rq' = [rq EXCEPT ![p].pc = "d_request",
                             ![p].d_list = daysplitinterval(rq[p].d_start, rq[p].d_end),
                             ![p].d_j = 1]
    /\ UNCHANGED <<cfgvars, fsvars, ob>>

\* for day in daylist: request_dict = generic_dict (the module level dictionary
\* itself, not a copy); request_dict['START_DATE'] = ...; request_dict['END_DATE'] = ...
\* After the last day _download returns to _load.
D_Request(p) ==
    /\ rq[p].pc = "d_request"
    /\ IF rq[p].d_j > Len(rq[p].d_list)
       THEN /\ rq' = [rq EXCEPT ![p] = [ClearDl(@) EXCEPT !.pc = "l_decode"]]
            /\ generic_dict' = generic_dict
       ELSE LET date == rq[p].d_list[rq[p].d_j]
            IN  /\ generic_dict' = [START_DATE |-> TimeMin(date),
                                    END_DATE |-> TimeMax(date)]
                /\ rq' = [rq EXCEPT ![p].pc = "d_url"]
    /\ UNCHANGED <<cfgvars, local_dir, tar, dirs, cdf, mcdf, hdf, ob>>

\* request_str = ...; for item in request_dict: request_str += ... request_dict[item];
\* request_url = csa_url + request_str: the url carries what the dictionary holds now
D_Url(p) ==
    /\ rq[p].pc = "d_url"
    /\ rq' = [rq EXCEPT ![p].pc = "d_get", ![p].url = generic_dict]
    /\ UNCHANGED <<cfgvars, fsvars, ob>>

\* the day in the name of the archive: year, month, day of starttime
ArchiveDay(p) == DateOf(rq[p].d_start)

\* what a request records when it asks the remote archive for the day of instant t
Fetched(o, t, today) ==
    [o EXCEPT !.downloads[DateOf(t)] = @ + 1,
              !.foreign = @ \/ DateOf(t) # today]

\* checkdir(local_dir); urlretrieve(request_url, filename=local_dir/<...>.tar.gz):
\* the archive arrives whole, or the call raises with nothing or a part of it written.
D_Get(p) ==
    /\ rq[p].pc = "d_get"
    /\ local_dir' = TRUE
    /\ ob' = [ob EXCEPT ![p] = Fetched(@, rq[p].url.START_DATE, Today(p))]
    /\ \/ /\ tar' = [tar EXCEPT ![ArchiveDay(p)] = TRUE]
          /\ rq' = [rq EXCEPT ![p].pc = "d_extract"]
       \/ /\ tar' \in {tar, [tar EXCEPT ![ArchiveDay(p)] = TRUE]}
          /\ rq' = [rq EXCEPT ![p].pc = "l_except", ![p].err = "FetchError"]
    /\ UNCHANGED <<cfgvars, generic_dict, dirs, cdf, mcdf, hdf>>

\* the free names a new 'CSA_Download_<stamp>' directory can take
FreeDirs == {k \in 1 .. MaxDirs : ~dirs[k].used}

\* tar = tarfile.open(local_dir/<...>.tar.gz); tar.extractall(local_dir): the archive
\* unpacks to a new 'CSA_Download_<stamp>' directory, with or without the
\* C<probe>_<product_id> directory and its files, or to no such directory, or it
\* cannot be read.
D_Extract(p) ==
    /\ rq[p].pc = "d_extract"
    /\ IF ~tar[ArchiveDay(p)]
       THEN /\ rq' = [rq EXCEPT ![p].pc = "l_except", ![p].err = "FetchError"]
            /\ UNCHANGED <<dirs, ob>>
       ELSE \/ /\ rq' = [rq EXCEPT ![p].pc = "l_except", ![p].err = "FetchError"]
               /\ UNCHANGED <<dirs, ob>>
            \/ /\ rq' = [rq EXCEPT ![p].pc = "d_rmtar"]
               /\ UNCHANGED <<dirs, ob>>
            \/ /\ rq' = [rq EXCEPT ![p].pc = "d_rmtar"]
               /\ FreeDirs # {}
               /\ LET k == CHOOSE k \in FreeDirs : \A j \in FreeDirs : k <= j
                  IN  /\ \/ dirs' = [dirs EXCEPT ![k] = [used |-> TRUE, sub |-> FALSE,
                                                         files |-> {}]]
                         \/ \E P \in Payloads :
                               dirs' = [dirs EXCEPT ![k] = [used |-> TRUE, sub |-> TRUE,
                                                            files |-> P]]
                      /\ ob' = [ob EXCEPT ![p].xdir = k]
    /\ UNCHANGED <<cfgvars, generic_dict, local_dir, tar, cdf, mcdf, hdf>>

\* os.remove(local_dir/<...>.tar.gz)
D_RmTar(p) ==
    /\ rq[p].pc = "d_rmtar"
    /\ IF ~tar[ArchiveDay(p)]
       THEN /\ rq' = [rq EXCEPT ![p].pc = "l_except", ![p].err = "FetchError"]
            /\ tar' = tar
       ELSE /\ rq' = [rq EXCEPT ![p].pc = "d_find"]
            /\ tar' = [tar EXCEPT ![ArchiveDay(p)] = FALSE]
    /\ UNCHANGED <<cfgvars, generic_dict, local_dir, dirs, cdf, mcdf, hdf, ob>>

\* dirlist = os.listdir(local_dir); for d in dirlist: if d[:13] == 'CSA_Download_':
\* download_dir = ...; break.  The listing has no order: any such directory may be
\* the first; with none, download_dir stays unbound (d = 0).
D_Find(p) ==
    /\ rq[p].pc = "d_find"
    /\ IF \E k \in 1 .. MaxDirs : dirs[k].used
       THEN \E k \in 1 .. MaxDirs :
               /\ dirs[k].used
               /\ rq' = [rq EXCEPT ![p].pc = "d_list", ![p].d = k]
       ELSE rq' = [rq EXCEPT ![p].pc = "d_list", ![p].d = 0]
    /\ UNCHANGED <<cfgvars, fsvars, ob>>

\* dirlist = os.listdir(download_dir): raises when download_dir is unbound or is no
\* directory
D_List(p) ==
    /\ rq[p].pc = "d_list"
    /\ IF rq[p].d = 0 \/ ~dirs[rq[p].d].used \/ ~dirs[rq[p].d].sub
       THEN rq' = [rq EXCEPT ![p].pc = "l_except", ![p].err = "FetchError"]
       ELSE rq' = [rq EXCEPT ![p].pc = "d_rename", ![p].flist = dirs[rq[p].d].files]
    /\ UNCHANGED <<cfgvars, fsvars, ob>>

\* the canonical file a payload file f is moved to: local_dir/f[:cutoff] + '.cdf',
\* the day its own name carries
RenameTarget(f) == f

\* for f in dirlist: os.rename(download_dir/f, local_dir/f[:cutoff] + '.cdf'):
\* one file per step, in the order of the listing (any); a file already at the
\* target is replaced.
D_Rename(p) ==
    /\ rq[p].pc = "d_rename"
    /\ IF rq[p].flist = {}
       THEN /\ rq' = [rq EXCEPT ![p].pc = "d_rmdir"]
            /\ UNCHANGED <<dirs, cdf>>
       ELSE \E f \in rq[p].flist :
               IF f \in dirs[rq[p].d].files
               THEN /\ cdf' = [cdf EXCEPT ![RenameTarget(f)] = TRUE]
                    /\ dirs' = [dirs EXCEPT ![rq[p].d].files = @ \ {f}]
                    /\ rq' = [rq EXCEPT ![p].flist = @ \ {f}]
               ELSE /\ rq' = [rq EXCEPT ![p].pc = "l_except", ![p].err = "FetchError"]
                    /\ UNCHANGED <<dirs, cdf>>
    /\ UNCHANGED <<cfgvars, generic_dict, local_dir, tar, mcdf, hdf, ob>>

\* os.rmdir(download_dir); os.rmdir(os.path.join(local_dir, d)): both must be empty;
\* then the next day of _download's own list
D_Rmdir(p) ==
    /\ rq[p].pc = "d_rmdir"
    /\ IF dirs[rq[p].d].used /\ dirs[rq[p].d].sub /\ dirs[rq[p].d].files = {}
       THEN /\ dirs' = [dirs EXCEPT ![rq[p].d] = NoDir]
            /\ rq' = [rq EXCEPT ![p].pc = "d_request", ![p].d_j = @ + 1]
            /\ ob' = [ob EXCEPT ![p].xdir = 0]
       ELSE /\ dirs' = dirs
            /\ rq' = [rq EXCEPT ![p].pc = "l_except", ![p].err = "FetchError"]
            /\ ob' = ob
    /\ UNCHANGED <<cfgvars, generic_dict, local_dir, tar, cdf, mcdf, hdf>>

\* ------------------------------------------------------------- messenger.mag_rtn
\* for day in daylist: ... if os.path.isfile(hdfloc): df = pd.read_hdf(hdfloc);
\* data.append(df); continue.  A file that was not written to its end reads as the
\* rows it holds or does not read at all, and nothing in mag_rtn catches that.
M_Day(p) ==
    /\ rq[p].pc = "m_day"
    /\ IF rq[p].i > Len(rq[p].daylist)
       THEN rq' = [rq EXCEPT ![p].pc = "m_merge"]
       ELSE IF HdfCached(Today(p))
       THEN \/ rq' = [rq EXCEPT ![p].data = Append(@, Frame(Today(p), hdf[Today(p)].rows)),
                                ![p].i = @ + 1]
            \/ /\ ~hdf[Today(p)].whole
               /\ rq' = [rq EXCEPT ![p].pc = "done", ![p].outcome = "DecodeError"]
       ELSE rq' = [rq EXCEPT ![p].pc = "m_load"]
    /\ UNCHANGED <<cfgvars, fsvars, ob>>

\* helper.checkdir(local_dir); cdf = helper.load(filename, local_dir, remote_url, ...):
\* helper.load opens the local file when there is one and downloads it otherwise; a
\* download that fails raises, and nothing in mag_rtn catches it.
M_Load(p) ==
    /\ rq[p].pc = "m_load"
    /\ local_dir' = TRUE
    /\ IF McdfCached(Today(p))
       THEN /\ rq' = [rq EXCEPT ![p].pc = "m_decode"]
            /\ ob' = [ob EXCEPT ![p].calls[Today(p)] = @ + 1]
            /\ mcdf' = mcdf
       ELSE \/ /\ mcdf' = [mcdf EXCEPT ![Today(p)] = TRUE]
               /\ rq' = [rq EXCEPT ![p].pc = "m_decode"]
               /\ ob' = [ob EXCEPT ![p] = [Fetched(@, TimeMin(Today(p)), Today(p))
                                              EXCEPT !.calls[Today(p)] = @ + 1]]
            \/ /\ mcdf' = mcdf
               /\ rq' = [rq EXCEPT ![p].pc = "done", ![p].outcome = "FetchError"]
               /\ ob' = [ob EXCEPT ![p] = [Fetched(@, TimeMin(Today(p)), Today(p))
                                              EXCEPT !.calls[Today(p)] = @ + 1,
                                                     !.ffail = @ \cup {Today(p)}]]
    /\ UNCHANGED <<cfgvars, generic_dict, tar, dirs, cdf, hdf>>

\* the file is opened (in helper.load) and df = helper.cdf2df(cdf, index_key='Epoch',
\* keys=keys): it decodes to a frame or raises, and nothing in mag_rtn catches that.
M_Decode(p) ==
    /\ rq[p].pc = "m_decode"
    /\ \/ /\ mcdf[Today(p)]
          /\ \E rows \in FrameChoices(Today(p)) :
                rq' = [rq EXCEPT ![p].pc = "m_hdf", ![p].df = rows]
          /\ ob' = [ob EXCEPT ![p].decodes[Today(p)] = @ + 1]
       \/ /\ rq' = [rq EXCEPT ![p].pc = "done", ![p].outcome = "DecodeError"]
          /\ ob' = [ob EXCEPT ![p].decodes[Today(p)] = @ + 1,
                              ![p].dfail = @ \cup {Today(p)}]
    /\ UNCHANGED <<cfgvars, fsvars>>

\* if use_hdf: df.to_hdf(hdfloc, key='data', mode='w'): the file is opened for
\* writing, which creates it empty; with the toggle off, data.append(df) and the next
\* day
M_Hdf(p) ==
    /\ rq[p].pc = "m_hdf"
    /\ IF use_hdf
       THEN /\ hdf' = [hdf EXCEPT ![Today(p)] = [isfile |-> TRUE, whole |-> FALSE,
                                                 rows |-> {}]]
            /\ rq' = [rq EXCEPT ![p].pc = "m_hdf_w"]
       ELSE /\ hdf' = hdf
            /\ rq' = [rq EXCEPT ![p].data = Append(@, Frame(Today(p), rq[p].df)),
                                ![p].df = {},
                                ![p].i = @ + 1,
                                ![p].pc = "m_day"]
    /\ UNCHANGED <<cfgvars, generic_dict, local_dir, tar, dirs, cdf, mcdf, ob>>

\* what a write of the rows df that stopped before its end leaves in the file: the
\* first rows, not all
PartialWrites(df) ==
    {S \in SUBSET df : S # df /\ \A t \in S : \A u \in df : u < t => u \in S}

\* df.to_hdf(...) goes on, in place: the rows are written to the end and then
\* data.append(df), or the write raises (disk full, interrupt) with a part of the rows
\* in the file, and nothing in mag_rtn catches that or removes the file.
M_HdfWrite(p) ==
    /\ rq[p].pc = "m_hdf_w"
    /\ \/ /\ hdf' = [hdf EXCEPT ![Today(p)] = [isfile |-> TRUE, whole |-> TRUE,
                                                rows |-> rq[p].df]]
          /\ rq' = [rq EXCEPT ![p].data = Append(@, Frame(Today(p), rq[p].df)),
                              ![p].df = {},
                              ![p].i = @ + 1,
                              ![p].pc = "m_day"]
       \/ /\ \E S \in PartialWrites(rq[p].df) :
                hdf' = [hdf EXCEPT ![Today(p)] = [isfile |-> TRUE, whole |-> FALSE,
                                                  rows |-> S]]
          /\ rq' = [rq EXCEPT ![p].pc = "done", ![p].outcome = "WriteError"]
    /\ UNCHANGED <<cfgvars, generic_dict, local_dir, tar, dirs, cdf, mcdf, ob>>

\* helper.timefilter raises the no-data error for an empty list of frames
NoFrames(data) == Len(data) = 0

\* what mag_rtn returns: helper.timefilter(data, starttime, endtime)
MagRtnResult(data, starttime, endtime) == timefilter(data, starttime, endtime)

\* return helper.timefilter(data, starttime, endtime)
M_Merge(p) ==
    /\ rq[p].pc = "m_merge"
    /\ IF NoFrames(rq[p].data)
       THEN rq' = [rq EXCEPT ![p].pc = "done", ![p].outcome = "NoDataError"]
       ELSE rq' = [rq EXCEPT ![p].pc = "done", ![p].outcome = "DONE"]
    /\ UNCHANGED <<cfgvars, fsvars, ob>>

\* what a request that ended DONE returns to the caller who asked for the interval iv
Returned(p, iv) ==
    IF mission = "cluster"
    THEN LoadResult(rq[p].data, iv[1], iv[2])
    ELSE MagRtnResult(rq[p].data, iv[1], iv[2])

\* ------------------------------------------------------------- the system
Next ==
    \/ \E p \in procs : StartRequest(p)
    \/ \E p \in procs : Return(p)
    \/ \E p \in procs : L_Day(p)
    \/ \E p \in procs : L_Except(p)
    \/ \E p \in procs : L_Decode(p)
    \/ \E p \in procs : L_Merge(p)
    \/ \E p \in procs : D_Auth(p)
    \/ \E p \in procs : D_Request(p)
    \/ \E p \in procs : D_Url(p)
    \/ \E p \in procs : D_Get(p)
    \/ \E p \in procs : D_Extract(p)
    \/ \E p \in procs : D_RmTar(p)
    \/ \E p \in procs : D_Find(p)
    \/ \E p \in procs : D_List(p)
    \/ \E p \in procs : D_Rename(p)
    \/ \E p \in procs : D_Rmdir(p)
    \/ \E p \in procs : M_Day(p)
    \/ \E p \in procs : M_Load(p)
    \/ \E p \in procs : M_Decode(p)
    \/ \E p \in procs : M_Hdf(p)
    \/ \E p \in procs : M_HdfWrite(p)
    \/ \E p \in procs : M_Merge(p)
    \/ NewSession

\* One caller at a time: a request runs to its end before the next begins.
Spec == Init /\ [][Next]_vars

\* Two callers in one interpreter (two threads), each with one request of one day, on
\* a download directory that is empty at first: the steps of the two requests
\* interleave; nothing in cluster.py or messenger.py takes a lock.
InitConc == InitWith(Procs)

NextConc ==
    \/ \E p \in procs : StartDayRequest(p)
    \/ \E p \in procs : L_Day(p)
    \/ \E p \in procs : L_Except(p)
    \/ \E p \in procs : L_Decode(p)
    \/ \E p \in procs : L_Merge(p)
    \/ \E p \in procs : D_Auth(p)
    \/ \E p \in procs : D_Request(p)
    \/ \E p \in procs : D_Url(p)
    \/ \E p \in procs : D_Get(p)
    \/ \E p \in procs : D_Extract(p)
    \/ \E p \in procs : D_RmTar(p)
    \/ \E p \in procs : D_Find(p)
    \/ \E p \in procs : D_List(p)
    \/ \E p \in procs : D_Rename(p)
    \/ \E p \in procs : D_Rmdir(p)
    \/ \E p \in procs : M_Day(p)
    \/ \E p \in procs : M_Load(p)
    \/ \E p \in procs : M_Decode(p)
    \/ \E p \in procs : M_Hdf(p)
    \/ \E p \in procs : M_HdfWrite(p)
    \/ \E p \in procs : M_Merge(p)

SpecConc == InitConc /\ [][NextConc]_vars

\* ------------------------------------------------------------- what the claims speak of
\* the request has ended: its caller has a result or an error
Done(p) == rq[p].pc = "done"
\* the days of the request's partition
PartitionDays(p) == {rq[p].daylist[k] : k \in DOMAIN rq[p].daylist}
\* the days that contributed a frame
FrameDays(p) == {rq[p].data[k].day : k \in DOMAIN rq[p].data}
\* every day of the partition was processed: the loop over the days ran to its end
AllDaysProcessed(p) == rq[p].i = Len(rq[p].daylist) + 1

\* C1: in a request of two or more days, when the fetch of one day failed, another day
\* gave its frame and no decode failed, the request ends DONE with every day processed
\* and the frames of exactly the days that did not fail. (Stated for both missions;
\* messenger.mag_rtn does not hold it.)
C1_PartialFetchFailureTolerated ==
    \A p \in procs :
        ( /\ Done(p)
          /\ Len(rq[p].daylist) >= 2
          /\ ob[p].ffail # {}
          /\ FrameDays(p) \ ob[p].ffail # {}
          /\ ob[p].dfail = {} )
        => /\ rq[p].outcome = "DONE"
           /\ AllDaysProcessed(p)
           /\ FrameDays(p) = PartitionDays(p) \ ob[p].ffail

\* C2: a day whose decode failed is dropped: the request still ends DONE or with the
\* no-data error, and every day of the partition was processed. (The code does not hold
\* it: the decode is outside any try.)
C2_DecodeFailureContained ==
    \A p \in procs :
        (Done(p) /\ ob[p].dfail # {})
        => /\ rq[p].outcome \in {"DONE", "NoDataError"}
           /\ AllDaysProcessed(p)

\* C3: when no day of the partition was cached and the fetch of every day failed, the
\* request ends with the no-data error. (messenger.mag_rtn does not hold it.)
C3_AllDaysFailedNoData ==
    \A p \in procs :
        ( /\ Done(p)
          /\ ob[p].cached0 = {}
          /\ ob[p].ffail = PartitionDays(p) )
        => rq[p].outcome = "NoDataError"

\* C4: a request that has ended is DONE or FAILED with the no-data error, and it is
\* FAILED exactly when no day produced a frame; no other error reaches the caller.
C4_OnlyDoneOrNoData ==
    \A p \in procs :
        Done(p) => /\ rq[p].outcome \in {"DONE", "NoDataError"}
                   /\ rq[p].outcome = "NoDataError" <=> rq[p].data = << >>

\* C5: a request whose every day had its artifact on disk when it began asks the remote
\* archive for nothing: no download for any day, and in cluster no call of _download.
C5_CachedIntervalFetchesNothing ==
    \A p \in procs :
        (rq[p].pc # "idle" /\ ob[p].cached0 = PartitionDays(p))
        => \A d \in Days :
              /\ ob[p].downloads[d] = 0
              /\ mission = "cluster" => ob[p].calls[d] = 0

\* a request of two days, both cached when it began, ended DONE with both frames and
\* no download
C5_Witness ==
    \E p \in procs :
        /\ Done(p)
        /\ rq[p].outcome = "DONE"
        /\ Len(rq[p].daylist) >= 2
        /\ ob[p].cached0 = PartitionDays(p)
        /\ FrameDays(p) = PartitionDays(p)
        /\ \A d \in Days : ob[p].downloads[d] = 0

\* C6: within one request each day sees at most one call of the fetcher, at most one
\* download and at most one decode; a download is for the day the pipeline is at, never
\* another; and a call of _download that returned made exactly one download.
C6_OncePerDay ==
    \A p \in procs :
        /\ \A d \in Days :
              /\ ob[p].calls[d] <= 1
              /\ ob[p].downloads[d] <= ob[p].calls[d]
              /\ ob[p].decodes[d] <= 1
        /\ ~ob[p].foreign
        /\ (rq[p].pc = "l_decode" /\ ob[p].calls[Today(p)] = 1)
              => ob[p].downloads[Today(p)] = 1

\* a request of two days ended with one download for each day, one of them failed (and
\* was not tried again), the other decoded once
C6_Witness ==
    \E p \in procs :
        /\ Done(p)
        /\ Len(rq[p].daylist) >= 2
        /\ \A d \in PartitionDays(p) : ob[p].calls[d] = 1 /\ ob[p].downloads[d] = 1
        /\ ob[p].ffail # {}
        /\ \E d \in PartitionDays(p) : d \notin ob[p].ffail /\ ob[p].decodes[d] = 1

\* C7: in cluster with the cookie unset a request ends with the configuration error.
\* (The code does not hold it: the error is caught per day, and is not even raised for
\* a cached day.)
C7_UnsetCookieIsFatal ==
    \A p \in procs :
        (Done(p) /\ mission = "cluster" /\ cda_cookie = "none")
        => rq[p].outcome = "ConfigurationError"

\* C8: a call of _download with the cookie unset raises at once and changes nothing:
\* no directory made, no archive written, nothing extracted or moved, the request
\* dictionary as it was, no download counted.
C8_UnsetCookieRaisesBeforeAnyEffect ==
    [][\A p \in procs :
          (rq[p].pc = "d_auth" /\ cda_cookie = "none")
          => /\ rq'[p].pc = "l_except"
             /\ rq'[p].err = "ConfigurationError"
             /\ UNCHANGED <<local_dir, tar, dirs, cdf, generic_dict>>
             /\ ob'[p].downloads = ob[p].downloads]_vars

\* _download has just raised for the unset cookie, in a download directory that earlier
\* sessions filled
C8_Witness ==
    \E p \in procs :
        /\ rq[p].pc = "l_except"
        /\ rq[p].err = "ConfigurationError"
        /\ cda_cookie = "none"
        /\ \A d \in Days : ob[p].downloads[d] = 0
        /\ \E d \in Days : cdf[d]

\* the rows of a result are within [iv[1], iv[2]) and strictly increasing in time
ClippedAndIncreasing(r, iv) ==
    /\ \A k \in DOMAIN r : iv[1] <= r[k].t /\ r[k].t < iv[2]
    /\ \A k \in DOMAIN r : k + 1 \in DOMAIN r => r[k].t < r[k + 1].t

C10_ArtifactNeverRewritten ==
    [][/\ \A d \in Days : /\ cdf[d] => cdf'[d]
                          /\ hdf[d].isfile => hdf'[d].isfile
                          /\ hdf[d].whole => hdf'[d] = hdf[d]
       /\ \A p \in procs : \A f \in Days :
             ( /\ rq[p].pc = "d_rename"
               /\ f \in rq[p].flist
               /\ f \notin rq'[p].flist
               /\ rq'[p].pc = "d_rename" )
             => ~cdf[f]]_vars

\* C11: a pass of _download's loop body that ran to its end (the fetch of the day
\* succeeded) leaves the day's canonical .cdf, no .tar.gz of the day and not the
\* 'CSA_Download_*' directory its own archive unpacked to. (The code does not hold it:
\* an empty or foreign-named payload leaves no canonical file, and with a leftover
\* directory in the year directory the one removed is the leftover.)
C11_SuccessfulFetchLeavesOnlyCanonical ==
    [][\A p \in procs :
          (rq[p].pc = "d_rmdir" /\ rq'[p].pc = "d_request")
          => /\ cdf'[Today(p)]
             /\ ~tar'[Today(p)]
             /\ ob[p].xdir # 0 => ~dirs'[ob[p].xdir].used]_vars

\* C16: in cluster, when _download has returned for a day, the canonical file that
\* _load opens next is there. (The code does not hold it: the payload directory can be
\* empty or hold only files named for another date.)
C16_ReturnedDownloadLeftCanonicalFile ==
    \A p \in procs :
        (mission = "cluster" /\ rq[p].pc = "l_decode") => cdf[Today(p)]

\* C18: the 'CSA_Download_*' directory a fetch lists, moves files out of and removes is
\* the one its own archive unpacked to, never one an earlier fetch left. (The code does
\* not hold it: it takes the first directory with the prefix.)
C18_OnlyOwnPayloadRelocated ==
    \A p \in procs :
        rq[p].pc \in {"d_list", "d_rename", "d_rmdir"} => rq[p].d = ob[p].xdir

\* C15: with use_hdf off no step writes an .hdf file and every day of mag_rtn takes the
\* load-and-decode path whether or not an .hdf file of the day is there; with use_hdf on
\* an .hdf file changes only in the write that follows the day's decode. (The code does
\* not hold the second part: os.path.isfile(hdfloc) is asked whatever use_hdf is.)
C15_ToggleOffIgnoresFastCache ==
    [][/\ ~use_hdf =>
            /\ hdf' = hdf
            /\ \A p \in procs :
                  ( /\ rq[p].pc = "m_day"
                    /\ rq[p].i <= Len(rq[p].daylist)
                    /\ rq'[p] # rq[p] )
                  => rq'[p].pc = "m_load"
       /\ \A d \in Days :
             hdf'[d] # hdf[d] =>
                \E p \in procs : rq[p].pc \in {"m_hdf", "m_hdf_w"} /\ Today(p) = d]_vars

\* C17: every artifact the cache check accepts was written to its end: an .hdf file that
\* is there is whole unless its write is still going on. (mag_rtn does not hold it: a
\* to_hdf that raises leaves the file it began.)
C17_AcceptedArtifactIsWhole ==
    \A d \in Days :
        hdf[d].isfile =>
            \/ hdf[d].whole
            \/ \E p \in procs : rq[p].pc = "m_hdf_w" /\ Today(p) = d

\* C14: each request goes PARTITIONED -> per day (CACHE-CHECK -> [FETCH -> DECODE] ->
\* ACCUMULATE) -> MERGE -> DONE: the partition is ascending and fixed, the days are
\* taken one at a time in its order, a download is made only for a day whose artifact
\* is not on disk (in cluster, only within the day's one call of _download), a decode is
\* made only of the day the request is at, never of a day whose fetch failed (and in
\* cluster after a cache hit or after the day's download), the merge is entered only
\* when every day was taken, and a result or the no-data error comes only from the merge.
C14_PipelineOrder ==
    [][\A p \in procs :
          /\ \A k \in DOMAIN rq[p].daylist :
                k + 1 \in DOMAIN rq[p].daylist => rq[p].daylist[k] < rq[p].daylist[k + 1]
          /\ (rq[p].pc \notin {"idle", "done"} /\ rq'[p].pc # "idle")
                => /\ rq'[p].daylist = rq[p].daylist
                   /\ rq'[p].i \in {rq[p].i, rq[p].i + 1}
          /\ \A d \in Days :
                /\ ob'[p].downloads[d] > ob[p].downloads[d]
                      => /\ d \notin CachedDays
                         /\ mission = "cluster" => ob[p].calls[d] = 1
                /\ ob'[p].decodes[d] > ob[p].decodes[d]
                      => /\ d = Today(p)
                         /\ d \notin ob[p].ffail
                         /\ mission = "cluster"
                               => ob[p].calls[d] = 0 \/ ob[p].downloads[d] = 1
          /\ (rq'[p].pc \in {"l_merge", "m_merge"} /\ rq[p].pc # rq'[p].pc)
                => AllDaysProcessed(p)
          /\ (rq[p].outcome = "none" /\ rq'[p].outcome \in {"DONE", "NoDataError"})
                => rq[p].pc \in {"l_merge", "m_merge"}]_vars

\* a request of two days ended DONE from the merge with both frames: one day was read
\* from the cache without a fetch, the other was fetched and then decoded
C14_Witness ==
    \E p \in procs :
        /\ Done(p)
        /\ rq[p].outcome = "DONE"
        /\ Len(rq[p].daylist) >= 2
        /\ AllDaysProcessed(p)
        /\ FrameDays(p) = PartitionDays(p)
        /\ \E d \in ob[p].cached0 : ob[p].downloads[d] = 0 /\ ob[p].decodes[d] >= 1
        /\ \E d \in PartitionDays(p) \ ob[p].cached0 :
              ob[p].downloads[d] = 1 /\ ob[p].decodes[d] = 1

\* C12: nothing serializes two requests on the same day. While one request is in the
\* middle of writing the day's .hdf file and the other is at its cache check for that
\* day, the file is there and not whole, and the step the other takes accepts it: it
\* never goes on to helper.load, it reads the rows the file holds so far as the day's
\* frame (or the read raises).
C12_PartialArtifactAccepted ==
    [][\A p, q \in procs :
          ( /\ p # q
            /\ rq[q].pc = "m_hdf_w"
            /\ rq[p].pc = "m_day"
            /\ rq[p].i <= Len(rq[p].daylist)
            /\ Today(p) = Today(q)
            /\ rq'[p] # rq[p] )
          => /\ hdf[Today(p)].isfile
             /\ ~hdf[Today(p)].whole
             /\ rq'[p].pc \in {"m_day", "done"}
             /\ rq'[p].pc = "m_day"
                   => rq'[p].data
                         = Append(rq[p].data, Frame(Today(p), hdf[Today(p)].rows))]_vars

\* one request is still writing the .hdf file of a day and the other has already taken
\* its frame of that day from the file, without a decode of its own
C12_Witness ==
    \E p, q \in procs :
        /\ p # q
        /\ rq[q].pc = "m_hdf_w"
        /\ rq[p].pc \in {"m_day", "m_merge", "done"}
        /\ ob[p].decodes[Today(q)] = 0
        /\ \E k \in DOMAIN rq[p].data :
              /\ rq[p].data[k].day = Today(q)
              /\ rq[p].data[k].rows # rq[q].df

\* C13: two per-day branches for different days do not meet: each downloads its own
\* day only, and neither works in the 'CSA_Download_*' directory the other's archive
\* unpacked to. (cluster._download does not hold it: the branches share generic_dict
\* and the prefix lookup in the year directory.)
C13_BranchesIndependent ==
    \A p, q \in procs :
        ( /\ p # q
          /\ rq[p].pc # "idle"
          /\ rq[q].pc # "idle"
          /\ PartitionDays(p) \cap PartitionDays(q) = {} )
        => /\ ~ob[p].foreign
           /\ (rq[p].pc \in {"d_list", "d_rename", "d_rmdir"} /\ ob[q].xdir # 0)
                 => rq[p].d # ob[q].xdir

=============================================================================
